---- MODULE Spec2Model ----
(***************************************************************************)
(* Chunked retrieval of historical candles from Alpaca                     *)
(* (src/cli/tester/history-providers/alpaca.ts): the two entry points      *)
(* getHistoryIntervalAlpaca and getHistoryFromAlpaca, the per-day task     *)
(* requestDay, the joined wait collectCandles and the day file cache.      *)
(*                                                                         *)
(* Time is counted in ticks of 15 minutes (900000 ms, the smallest time    *)
(* constant of the source), so that every timestamp of the source          *)
(* (86400000 ms days, timezone offsets, the 15 minute tail) is a whole     *)
(* number of ticks.  Backoff delays stay in milliseconds.                  *)
(***************************************************************************)
EXTENDS Integers, Sequences, FiniteSets, TLC

VARIABLES
    args,          \* the options object of the invocation
    tzOffset,      \* now.getTimezoneOffset(), in ticks (UTC minus local time)
    today,         \* local calendar day of `new Date()` (day index since epoch)
    pc,            \* "idle" | "loop" | "sleep" | "returned" | "raised"
    calls,         \* number of invocations started
    end,           \* local `end`
    from,          \* local `from` (the cursor)
    to,            \* local `to`
    chunkStart,    \* local `chunkStart`: <<>> while undefined, else <<value>>
    tries,         \* local `tries`
    reqs,          \* local `reqs`: the in-flight tasks
    result,        \* local `result`
    progressValue, \* local `progressValue` (getHistoryFromAlpaca)
    progress,      \* the progress sink: [total, value]
    cache,         \* the files under history/alpaca: path -> file content
    delay,         \* the delay given to the last setTimeout, in ms
    retVal,        \* the value the invocation returned
    prev,          \* what the previous invocation enqueued and returned
    enq,           \* chunks handed to requestDay in this invocation, in order
    flushes,       \* the awaits of collectCandles in this invocation, in order
    committed,     \* chunks whose candles were appended to `result`
    upstream,      \* chunks for which alpaca.getBars was called (this invocation)
    reads,         \* the paths given to file.readFile (this invocation)
    pending,       \* chunks of failed batches whose getBars call is still open
    arrived        \* the candles of the committed batches in the order the
                   \* tasks resolved

vars == <<args, tzOffset, today, pc, calls, end, from, to, chunkStart, tries,
          reqs, result, progressValue, progress, cache, delay, retVal, prev,
          enq, flushes, committed, upstream, reads,
                   pending, arrived>>

----------------------------------------------------------------------------
(* Program constants *)

MsPerDay == 86400000
MsPerTick == 900000
BatchSize == 50
BackoffUnitMs == 10000

Day == MsPerDay \div MsPerTick
Lookback == MsPerTick \div MsPerTick

(* Bounds of the model *)

MaxDays == 3
MaxGap == 1
MaxTries == 2
MaxCalls == 2
MaxClock == 1
LoadDay == 67

TzOffsets == {0 - 12, 0, 20}
IntraDay == {0, 40}
Intervals == {"day", "5min"}
StartDays == {LoadDay - 3, LoadDay - 2, LoadDay - BatchSize - 1}

----------------------------------------------------------------------------
(* Arithmetic and sequence helpers *)

RECURSIVE Pow2(_)
Pow2(n) == IF n = 0 THEN 1 ELSE 2 * Pow2(n - 1)

RECURSIVE Concat(_)
Concat(ss) == IF ss = <<>> THEN <<>> ELSE Head(ss) \o Concat(Tail(ss))

RECURSIVE SortedSeq(_)
SortedSeq(S) ==
    IF S = {} THEN <<>>
    ELSE LET m == CHOOSE x \in S : \A y \in S : x <= y
         IN  <<m>> \o SortedSeq(S \ {m})

\* ~~(x / 86400000) * 86400000 for a timestamp x >= 0
DayFloor(t) == (t \div Day) * Day

----------------------------------------------------------------------------
(* The calendar, as date.isWeekend and date.isSameDay read it: in local time *)

LocalDay(t) == (t - tzOffset) \div Day

\* day 0 of the epoch is a Thursday; 0 is Sunday, 6 is Saturday
Weekday(d) == (d + 4) % 7

isWeekend(t) == Weekday(LocalDay(t)) \in {0, 6}

\* date.isSameDay(new Date(), new Date(t))
isSameDay(t) == today = LocalDay(t)

----------------------------------------------------------------------------
(* The upstream provider: one bar per UTC weekday, stamped 14:00 UTC, and  *)
(* none for a day that has not begun.  A raw bar's `t` is its textual      *)
(* timestamp, here the pair <<calendar day, tick of the day>>.              *)

RawBar(d) ==
    [t |-> <<d, 56>>, o |-> d, h |-> d + 1, l |-> d - 1, c |-> d, v |-> 100]

getBars(start, stop) ==
    LET days == SortedSeq({d \in (start \div Day)..(stop \div Day) :
                              /\ start <= d * Day + 56
                              /\ d * Day + 56 < stop
                              /\ Weekday(d) \notin {0, 6}
                              /\ d <= today})
    IN  [i \in 1..Len(days) |-> RawBar(days[i])]

\* Date.parse of the textual timestamp
DateParse(t) == t[1] * Day + t[2]

transformAlpacaCandle(bar) ==
    LET rawBar == bar
    IN  [o |-> rawBar.o, h |-> rawBar.h, l |-> rawBar.l, c |-> rawBar.c,
         v |-> rawBar.v, time |-> DateParse(rawBar.t)]

convertTimeFrame(timeframe) ==
    CASE timeframe = "1min" -> [thrown |-> FALSE, value |-> "1Min"]
      [] timeframe = "1h"   -> [thrown |-> FALSE, value |-> "1Hour"]
      [] timeframe = "day"  -> [thrown |-> FALSE, value |-> "1Day"]
      [] OTHER              -> [thrown |-> TRUE, value |-> timeframe]

----------------------------------------------------------------------------
(* The day cache *)

getPath(interval, f, t) == <<"history/alpaca", interval, f, t>>

\* file.saveFile writes the list as JSON text; JSON.parse reads it back.
\* A file's text is JSON, or was cut to nothing, or is no longer JSON.
Stringify(candles) == [form |-> "json", json |-> candles]
Parse(text) == text.json
Truncated == [form |-> "empty", json |-> <<>>]
Garbled == [form |-> "garbled", json |-> <<>>]

\* if (historyFile): the empty text is falsy
Truthy(text) == text.form # "empty"

\* JSON.parse throws on text that is not JSON
ParseThrows(text) == text.form # "json"

----------------------------------------------------------------------------
(* requestDay.  Its body runs synchronously up to the await of getBars, so *)
(* the weekend test, the cache read and the call of getBars happen when    *)
(* the task is created; the mapping of the bars and saveDay happen when    *)
(* the response arrives.                                                   *)

\* requestDay without its weekend test
NeverSkip(f) == FALSE

ShouldSkip(f) == isWeekend(f)

\* requestDay without its same-day test
AlwaysSave(f) == TRUE

ShouldSave(f) == ~isSameDay(f)

RequestDayStart(f, t) ==
    LET path == getPath(args.interval, f, t)
    IN  IF ShouldSkip(f)
          THEN [from |-> f, to |-> t, kind |-> "weekend", val |-> <<>>]
        ELSE IF path \in DOMAIN cache /\ Truthy(cache[path])
          THEN IF ParseThrows(cache[path])
                 THEN [from |-> f, to |-> t, kind |-> "unparsable", val |-> <<>>]
                 ELSE [from |-> f, to |-> t, kind |-> "hit",
                       val |-> Parse(cache[path])]
        ELSE IF convertTimeFrame(args.interval).thrown
          THEN [from |-> f, to |-> t, kind |-> "throw", val |-> <<>>]
        ELSE [from |-> f, to |-> t, kind |-> "fetch", val |-> <<>>]

\* the candles a task resolves with
TaskValue(task) ==
    IF task.kind = "fetch"
      THEN LET bars == getBars(task.from, task.to)
           IN  [i \in 1..Len(bars) |-> transformAlpacaCandle(bars[i])]
      ELSE task.val

\* the files after the tasks `done` of `rs` received their response
CacheAfter(rs, done) ==
    LET saved == {i \in done : rs[i].kind = "fetch" /\ ShouldSave(rs[i].from)}
        pathOf(i) == getPath(args.interval, rs[i].from, rs[i].to)
        paths == {pathOf(i) : i \in saved}
    IN  [p \in DOMAIN cache \cup paths |->
            IF p \in paths
              THEN Stringify(TaskValue(rs[CHOOSE i \in saved : pathOf(i) = p]))
              ELSE cache[p]]

\* The orders in which the n tasks of a batch may resolve: the order they
\* were enqueued in, and its reverse.
CompletionOrders(n) == {[i \in 1..n |-> i], [i \in 1..n |-> n + 1 - i]}

\* a concatenation that takes the tasks last to first
collectReversed(rs) ==
    Concat([i \in 1..Len(rs) |-> TaskValue(rs[Len(rs) + 1 - i])])

\* collectCandles on a batch whose tasks all resolved: Promise.all gives
\* the values in the order of `reqs`
collectCandles(rs) == Concat([i \in 1..Len(rs) |-> TaskValue(rs[i])])

Fetchers(rs) == {i \in 1..Len(rs) : rs[i].kind = "fetch"}
Throwers(rs) == {i \in 1..Len(rs) : rs[i].kind \in {"throw", "unparsable"}}

\* the first and the last upstream call of a batch
Ends(rs) ==
    {i \in Fetchers(rs) :
        \/ \A j \in Fetchers(rs) : i <= j
        \/ \A j \in Fetchers(rs) : i >= j}

\* The sets of tasks that may reject in one batch: the tasks whose
\* convertTimeFrame or JSON.parse threw always do; of the upstream calls none, one (the
\* first or the last) or all.
FailChoices(rs) ==
    {F \cup Throwers(rs) :
        F \in {{}} \cup {{i} : i \in Ends(rs)} \cup {Fetchers(rs)}} \ {{}}

\* Promise.all rejects with the first rejection and nothing cancels the
\* other tasks: when the tasks F reject, the upstream calls of the batch
\* that did not reject have either all answered already or are all still
\* open.
OpenChoices(rs, F) == {{}, Fetchers(rs) \ F}

\* the files after the still open upstream calls `open` answered; a call
\* that answers with an error writes nothing
CacheAfterOpen(open) ==
    LET saved == {c \in open : ShouldSave(c[1])}
        pathOf(c) == getPath(args.interval, c[1], c[2])
        paths == {pathOf(c) : c \in saved}
        value(c) == LET bars == getBars(c[1], c[2])
                    IN  [i \in 1..Len(bars) |-> transformAlpacaCandle(bars[i])]
    IN  [p \in DOMAIN cache \cup paths |->
            IF p \in paths
              THEN Stringify(value(CHOOSE c \in saved : pathOf(c) = p))
              ELSE cache[p]]

----------------------------------------------------------------------------
(* The requests the entry points are called with *)

IntervalArgs(Ns) ==
    {[entry |-> "interval", interval |-> iv, start |-> sd * Day + so,
      end |-> (sd + n) * Day + eo, days |-> 0, gapDays |-> 0] :
        sd \in StartDays, n \in Ns, so \in IntraDay, eo \in IntraDay,
        iv \in Intervals}

FromArgs(Ns) ==
    {[entry |-> "from", interval |-> iv, start |-> 0, end |-> 0,
      days |-> n, gapDays |-> g] :
        n \in Ns, g \in 0..MaxGap, iv \in Intervals}

InitWith(requests) ==
    /\ args \in requests
    /\ tzOffset \in TzOffsets
    /\ today = LoadDay
    /\ pc = "idle"
    /\ calls = 0
    /\ end = 0
    /\ from = 0
    /\ to = 0
    /\ chunkStart = <<>>
    /\ tries = 0
    /\ reqs = <<>>
    /\ result = <<>>
    /\ progressValue = 0
    /\ progress = [total |-> 0, value |-> 0]
    /\ cache = <<>>
    /\ delay = 0
    /\ retVal = <<>>
    /\ prev = [pc |-> "idle", enq |-> <<>>, ret |-> <<>>, today |-> LoadDay]
    /\ enq = <<>>
    /\ flushes = <<>>
    /\ committed = {}
    /\ upstream = {}
    /\ reads = {}
    /\ pending = {}
    /\ arrived = <<>>

\* Ranges one day longer than a batch: day-aligned, on a supported timeframe
BatchDays == BatchSize + 1

BatchArgs ==
    {a \in IntervalArgs({BatchDays}) :
        /\ a.interval = "day"
        /\ a.start = (LoadDay - BatchDays) * Day
        /\ a.end % Day = 0}
    \cup {a \in FromArgs({BatchDays}) : a.interval = "day"}

Init == InitWith(IntervalArgs(0..MaxDays) \cup FromArgs(1..MaxDays) \cup BatchArgs)

----------------------------------------------------------------------------
(* One pass of the while loop, shared by the two entry points (their loop  *)
(* bodies are the same text up to the progress counter).                   *)

\* !chunkStart: undefined and 0 are both falsy
Falsy(cs) == cs = <<>> \/ cs[1] = 0

NextTo == from + Day
NextChunkStart == IF Falsy(chunkStart) THEN <<from>> ELSE chunkStart
NewTask == RequestDayStart(from, NextTo)
NewReqs == Append(reqs, NewTask)
\* a flush at the end of the range only
FlushAtEndOnly == NextTo >= end

FlushDue == Len(NewReqs) = BatchSize \/ NextTo >= end

BackoffDelay(n) == Pow2(n) * BackoffUnitMs

\* a flush that forgets to reset `tries`
TriesKept == tries

TriesAfterFlush == 0

\* a checkpoint put on the start of the last chunk awaited
CheckpointAtFrom == <<from>>

CheckpointAfterFlush == <<NextTo>>

\* a catch block without `from = chunkStart`
CursorNotRewound == from

CursorAfterFailure == NextChunkStart[1]

\* the bookkeeping of a requestDay call
Requested ==
    /\ enq' = Append(enq, <<from, NextTo>>)
    /\ upstream' = IF NewTask.kind = "fetch" THEN upstream \cup {from} ELSE upstream
    /\ reads' = IF NewTask.kind = "weekend" THEN reads
                ELSE reads \cup {getPath(args.interval, from, NextTo)}

\* the locals at the start of an invocation
Locals(start, stop) ==
    /\ end' = stop
    /\ from' = start
    /\ to' = start
    /\ chunkStart' = <<>>
    /\ tries' = 0
    /\ reqs' = <<>>
    /\ result' = <<>>
    /\ progressValue' = 0
    /\ delay' = 0
    /\ retVal' = <<>>
    /\ prev' = [pc |-> pc, enq |-> enq, ret |-> retVal, today |-> today]
    /\ enq' = <<>>
    /\ flushes' = <<>>
    /\ committed' = {}
    /\ upstream' = {}
    /\ reads' = {}
    /\ arrived' = <<>>

\* the entry points are awaited one after the other, and the next one is
\* called once the upstream calls left open by the previous one have answered
CanCall ==
    /\ pc \in {"idle", "returned", "raised"}
    /\ calls < MaxCalls
    /\ pending = {}

Enqueue(entry) ==
    /\ args.entry = entry
    /\ pc = "loop"
    /\ to <= end
    /\ ~FlushDue
    /\ to' = NextTo
    /\ chunkStart' = NextChunkStart
    /\ reqs' = NewReqs
    /\ from' = NextTo
    /\ Requested
    /\ UNCHANGED <<args, tzOffset, today, pc, calls, end, tries, result, cache,
                   delay, retVal, prev, flushes, committed, pending, arrived>>

FlushOk(entry) ==
    /\ args.entry = entry
    /\ pc = "loop"
    /\ to <= end
    /\ FlushDue
    /\ Throwers(NewReqs) = {}
    /\ to' = NextTo
    /\ result' = result \o collectCandles(NewReqs)
    /\ cache' = CacheAfter(NewReqs, 1..Len(NewReqs))
    /\ reqs' = <<>>
    /\ tries' = TriesAfterFlush
    /\ chunkStart' = CheckpointAfterFlush
    /\ from' = NextTo
    /\ Requested
    /\ flushes' = Append(flushes, [n |-> Len(NewReqs), ok |-> TRUE])
    /\ committed' = committed \cup {NewReqs[i].from : i \in 1..Len(NewReqs)}
    /\ \E order \in CompletionOrders(Len(NewReqs)) :
          arrived' = arrived \o
              Concat([i \in 1..Len(NewReqs) |-> TaskValue(NewReqs[order[i]])])
    /\ UNCHANGED <<args, tzOffset, today, pc, calls, end, delay, retVal, prev,
                   pending>>

\* the catch block up to its last assignment; F is the set of rejecting tasks
Caught(entry, F) ==
    /\ args.entry = entry
    /\ pc = "loop"
    /\ to <= end
    /\ FlushDue
    /\ tries < MaxTries
    /\ F \in FailChoices(NewReqs)
    /\ to' = NextTo
    /\ \E open \in OpenChoices(NewReqs, F) :
          /\ cache' = CacheAfter(NewReqs, (1..Len(NewReqs)) \ (F \cup open))
          /\ pending' = pending \cup
                          {<<NewReqs[i].from, NewReqs[i].to>> : i \in open}
    /\ tries' = tries + 1
    /\ reqs' = <<>>
    /\ chunkStart' = NextChunkStart
    /\ from' = CursorAfterFailure
    /\ Requested
    /\ flushes' = Append(flushes, [n |-> Len(NewReqs), ok |-> FALSE])
    /\ UNCHANGED <<args, tzOffset, today, calls, end, result, retVal, prev,
                   committed, arrived>>

----------------------------------------------------------------------------
(* getHistoryIntervalAlpaca *)

IntervalStart == DayFloor(args.start) - tzOffset

IntervalEnd == DayFloor(args.end)

CallInterval ==
    /\ args.entry = "interval"
    /\ CanCall
    /\ calls' = calls + 1
    /\ pc' = "loop"
    /\ Locals(IntervalStart, IntervalEnd)
    /\ UNCHANGED <<args, tzOffset, today, progress, cache, pending>>

IntervalEnqueue ==
    /\ Enqueue("interval")
    /\ UNCHANGED <<progressValue, progress>>

IntervalFlushOk ==
    /\ FlushOk("interval")
    /\ UNCHANGED <<progressValue, progress>>

IntervalFlushFail ==
    /\ \E F \in FailChoices(NewReqs) : Caught("interval", F)
    /\ delay' = BackoffDelay(tries')
    /\ pc' = "sleep"
    /\ UNCHANGED <<progressValue, progress>>

IntervalWake ==
    /\ args.entry = "interval"
    /\ pc = "sleep"
    /\ pc' = "loop"
    /\ UNCHANGED <<args, tzOffset, today, calls, end, from, to, chunkStart,
                   tries, reqs, result, progressValue, progress, cache, delay,
                   retVal, prev, enq, flushes, committed, upstream, reads,
                   pending, arrived>>

\* a return without the filter of line 69
NoFilter(candles) == candles

BoundsFilter(candles) ==
    SelectSeq(candles, LAMBDA c : c.time >= args.start /\ c.time <= args.end)

IntervalReturn ==
    /\ args.entry = "interval"
    /\ pc = "loop"
    /\ ~(to <= end)
    /\ retVal' = BoundsFilter(result)
    /\ pc' = "returned"
    /\ UNCHANGED <<args, tzOffset, today, calls, end, from, to, chunkStart,
                   tries, reqs, result, progressValue, progress, cache, delay,
                   prev, enq, flushes, committed, upstream, reads,
                   pending, arrived>>

----------------------------------------------------------------------------
(* getHistoryFromAlpaca *)

\* `now` after setHours(0) etc.: the instant of local midnight of the day
\* the module was loaded
NowMidnight == LoadDay * Day + tzOffset

FromEnd0 == NowMidnight - tzOffset - Day * args.gapDays

FromStart == FromEnd0 - Day * args.days

FromEnd == IF args.gapDays = 0 THEN FromEnd0 - Lookback ELSE FromEnd0

\* a test that lets only errors with a code through
OnlyWithCode(code) == code

\* if (e.code || !e.code): `code` is the truthiness of e.code
IsFatal(code) == code \/ ~code

CallFrom ==
    /\ args.entry = "from"
    /\ CanCall
    /\ calls' = calls + 1
    /\ pc' = "loop"
    /\ Locals(FromStart, FromEnd)
    /\ progress' = [total |-> args.days, value |-> 0]
    /\ UNCHANGED <<args, tzOffset, today, cache, pending>>

FromEnqueue ==
    /\ Enqueue("from")
    /\ progressValue' = progressValue + 1
    /\ progress' = [progress EXCEPT !.value = progressValue']

FromFlushOk ==
    /\ FlushOk("from")
    /\ progressValue' = progressValue + 1
    /\ progress' = [progress EXCEPT !.value = progressValue']

\* a rollback by the whole length of the in-flight list
RollbackAll == Len(NewReqs)

\* progressValue -= reqs.length - 1: the chunk of the failing pass was not
\* counted yet
Rollback == Len(NewReqs) - 1

FromFlushFail ==
    /\ \E F \in FailChoices(NewReqs) : Caught("from", F)
    /\ progressValue' = progressValue - Rollback
    /\ progress' = [progress EXCEPT !.value = progressValue']
    /\ \E code \in BOOLEAN :
          IF IsFatal(code)
            THEN pc' = "raised" /\ delay' = delay
            ELSE pc' = "sleep" /\ delay' = BackoffDelay(tries')

FromReturn ==
    /\ args.entry = "from"
    /\ pc = "loop"
    /\ ~(to <= end)
    /\ progress' = [progress EXCEPT !.value = args.days]
    /\ retVal' = result
    /\ pc' = "returned"
    /\ UNCHANGED <<args, tzOffset, today, calls, end, from, to, chunkStart,
                   tries, reqs, result, progressValue, cache, delay,
                   prev, enq, flushes, committed, upstream, reads,
                   pending, arrived>>

----------------------------------------------------------------------------
(* The clock: `new Date()` in requestDay moves on to the next day.  Time   *)
(* passes while an invocation is suspended or between invocations; the      *)
(* synchronous stretch of the loop that creates the tasks of a batch reads  *)
(* no clock, so the day changes only while no task is pending.              *)

AdvanceDay ==
    /\ today < LoadDay + MaxClock
    /\ reqs = <<>>
    /\ today' = today + 1
    /\ UNCHANGED <<args, tzOffset, pc, calls, end, from, to, chunkStart, tries,
                   reqs, result, progressValue, progress, cache, delay, retVal,
                   prev, enq, flushes, committed, upstream, reads,
                   pending, arrived>>

\* The upstream calls left open by failed batches answer, with bars or
\* with an error.  Their continuation in requestDay runs only while the
\* entry point is suspended or has ended.
SettleOpen ==
    /\ pending # {}
    /\ reqs = <<>>
    /\ \E ok \in BOOLEAN :
          cache' = IF ok THEN CacheAfterOpen(pending) ELSE cache
    /\ pending' = {}
    /\ UNCHANGED <<args, tzOffset, today, pc, calls, end, from, to, chunkStart,
                   tries, reqs, result, progressValue, progress, delay, retVal,
                   prev, enq, flushes, committed, upstream, reads, arrived>>

\* the intact files a damage may hit: the oldest and the newest
DamageChoices ==
    {p \in DOMAIN cache :
        /\ cache[p].form = "json"
        /\ \/ \A q \in DOMAIN cache : p[3] <= q[3]
           \/ \A q \in DOMAIN cache : p[3] >= q[3]}

\* Between two invocations a cache file is damaged on disk: cut to nothing
\* or left with text that is not JSON.  One file is damaged at a time.
DamageFile ==
    /\ CanCall
    /\ pc # "idle"
    /\ \A p \in DOMAIN cache : cache[p].form = "json"
    /\ \E p \in DamageChoices, text \in {Truncated, Garbled} :
          cache' = [cache EXCEPT ![p] = text]
    /\ UNCHANGED <<args, tzOffset, today, pc, calls, end, from, to, chunkStart,
                   tries, reqs, result, progressValue, progress, delay, retVal,
                   prev, enq, flushes, committed, upstream, reads, pending,
                   arrived>>

Next ==
    \/ CallInterval
    \/ IntervalEnqueue
    \/ IntervalFlushOk
    \/ IntervalFlushFail
    \/ IntervalWake
    \/ IntervalReturn
    \/ CallFrom
    \/ FromEnqueue
    \/ FromFlushOk
    \/ FromFlushFail
    \/ FromReturn
    \/ AdvanceDay
    \/ SettleOpen

Spec == Init /\ [][Next]_vars

----------------------------------------------------------------------------
(* The program on a disk that damages files: between two invocations a     *)
(* cache file may be cut to nothing or left with text that is not JSON.    *)

InitDamage == InitWith(IntervalArgs(0..MaxDays) \cup FromArgs(1..MaxDays))

NextDamage ==
    \/ Next
    \/ DamageFile

SpecDamage == InitDamage /\ [][NextDamage]_vars

----------------------------------------------------------------------------
(* Properties *)

Last(s) == s[Len(s)]

Range(s) == {s[i] : i \in 1..Len(s)}

\* the number of failed flushes at the end of the flush log
RECURSIVE TrailingFailures(_)
TrailingFailures(fl) ==
    IF fl = <<>> \/ Last(fl).ok THEN 0
    ELSE 1 + TrailingFailures(SubSeq(fl, 1, Len(fl) - 1))

FailureFree == \A i \in 1..Len(flushes) : flushes[i].ok

\* C1: when getHistoryIntervalAlpaca returns, every chunk it handed to
\* requestDay has had its candles appended to `result`: no chunk of a
\* failed batch is dropped.
C1_NoChunkDropped ==
    (args.entry = "interval" /\ pc = "returned")
        => \A i \in 1..Len(enq) : enq[i][1] \in committed

\* C2: with an unsupported timeframe no batch failure is followed by a
\* backoff sleep or a retry, in either entry point: after the first failed
\* flush the invocation has raised, no timer was set and getBars was never
\* called.
C2_UnsupportedIsFatal ==
    (convertTimeFrame(args.interval).thrown /\ ~FailureFree)
        => /\ pc = "raised"
           /\ delay = 0
           /\ Len(flushes) = 1
           /\ upstream = {}

\* a chunk that ended before the local day the module was loaded on began
Historical(c) == c[2] - tzOffset <= LoadDay * Day

\* C3: a second getHistoryIntervalAlpaca for the same fully historical
\* range, after the first has returned, calls getBars for no chunk and
\* returns the same candle set.
C3_SecondCallFromCache ==
    (/\ args.entry = "interval"
     /\ calls = 2
     /\ pc = "returned"
     /\ prev.pc = "returned"
     /\ \A i \in 1..Len(prev.enq) : Historical(prev.enq[i])
     /\ \A i \in 1..Len(enq) : Historical(enq[i]))
        => /\ upstream = {}
           /\ Range(retVal) = Range(prev.ret)

\* C4: in getHistoryIntervalAlpaca `tries` is the number of consecutive
\* failed flushes since the last successful one (0 right after a success),
\* and the timer set by the N-th consecutive failure is 2^N x 10 seconds.
C4_BackoffDoubles ==
    args.entry = "interval"
        => LET n == TrailingFailures(flushes)
           IN  /\ tries = n
               /\ n >= 1 => delay = Pow2(n) * 10 * 1000
               /\ pc = "sleep" => n >= 1

\* C4 witness: a failure, then a success, then a failure that waits 20 s
\* again; and elsewhere two failures in a row are reached (tries = 2).
C4_Witness ==
    /\ args.entry = "interval"
    /\ pc = "sleep"
    /\ Len(flushes) >= 3
    /\ ~flushes[Len(flushes) - 2].ok
    /\ flushes[Len(flushes) - 1].ok
    /\ ~Last(flushes).ok
    /\ delay = 20000

\* C5: getHistoryIntervalAlpaca never raises, and a failed batch is always
\* retried: when the loop condition is tested after a failed flush, the loop
\* goes on.
C5_FailedBatchRetried ==
    args.entry = "interval"
        => /\ pc # "raised"
           /\ (pc = "loop" /\ flushes # <<>> /\ ~Last(flushes).ok) => to <= end

\* the number of days of the normalized range of getHistoryIntervalAlpaca
SpanDays == (IntervalEnd - DayFloor(args.start)) \div Day

\* C6: a failure-free getHistoryIntervalAlpaca over a normalized range of N
\* days hands exactly N chunks to requestDay, whatever the timezone offset.
C6_ChunkCount ==
    (args.entry = "interval" /\ pc = "returned" /\ FailureFree)
        => Len(enq) = SpanDays

\* C7: a failure-free run over a 51-day range awaits collectCandles exactly
\* twice, first with 50 tasks and then with 1, in both entry points.
C7_TwoFlushes ==
    (/\ pc = "returned"
     /\ FailureFree
     /\ args \in BatchArgs
     /\ (args.entry = "interval" => SpanDays = BatchDays)
     /\ (args.entry = "from" => args.days = BatchDays))
        => flushes = <<[n |-> BatchSize, ok |-> TRUE], [n |-> 1, ok |-> TRUE]>>

\* the candles of `candles` that lie in chunk c
InChunk(candles, c) ==
    {i \in 1..Len(candles) : c[1] <= candles[i].time /\ candles[i].time < c[2]}

\* C8: for a chunk whose `from` is a Saturday or Sunday no getBars call is
\* made, no cache file is read or written, and no candle of the chunk
\* reaches `result`, on the first pass and on every retry.
C8_WeekendSkip ==
    \A i \in 1..Len(enq) :
        LET c == enq[i]
            path == getPath(args.interval, c[1], c[2])
        IN  Weekday((c[1] - tzOffset) \div Day) \in {0, 6}
              => /\ c[1] \notin upstream
                 /\ path \notin reads
                 /\ path \notin DOMAIN cache
                 /\ InChunk(result, c) = {}
                 /\ \A k \in 1..Len(reqs) :
                       reqs[k].from = c[1] => reqs[k].kind = "weekend"

\* C8 witness: a weekend chunk that holds a bar upstream was handed to
\* requestDay twice (a retry after a failed batch) and the run returned
\* after a successful flush.
C8_Witness ==
    /\ pc = "returned"
    /\ \E i, j \in 1..Len(enq) :
          /\ i < j
          /\ enq[i] = enq[j]
          /\ isWeekend(enq[i][1])
          /\ enq[i][1] \in committed
          /\ Len(getBars(enq[i][1], enq[i][2])) > 0

BatchOfStep == {enq'[i] : i \in (Len(enq') - Last(flushes').n + 1)..Len(enq')}
NewFiles == DOMAIN cache' \ DOMAIN cache

C10_GapExcluded ==
    args.entry = "from"
        => /\ \A i \in 1..Len(enq) :
                /\ (LoadDay - args.gapDays - args.days) * Day <= enq[i][1]
                /\ enq[i][2] <= (LoadDay - args.gapDays) * Day
           /\ progressValue <= args.days
           /\ progress.value <= progress.total

\* C11: every candle getHistoryIntervalAlpaca returns has a time within the
\* caller's own start and end, whatever `result` holds; what
\* getHistoryFromAlpaca returns is `result` as it is.
C11_BoundsFilter ==
    pc = "returned"
        => IF args.entry = "interval"
             THEN \A i \in 1..Len(retVal) :
                     args.start <= retVal[i].time /\ retVal[i].time <= args.end
             ELSE retVal = result

\* C11 witness: getHistoryIntervalAlpaca returned some candles and left out
\* a fetched candle that lies outside the caller's range.
C11_Witness ==
    /\ args.entry = "interval"
    /\ pc = "returned"
    /\ retVal # <<>>
    /\ \E i \in 1..Len(result) : result[i].time > args.end

\* the number of chunks awaited by the first k flushes
RECURSIVE FlushedBefore(_)
FlushedBefore(k) == IF k = 0 THEN 0 ELSE FlushedBefore(k - 1) + flushes[k].n

\* the chunks of the batch awaited by flush k
BatchOf(k) == SubSeq(enq, FlushedBefore(k - 1) + 1, FlushedBefore(k))

BatchOfStep_First == enq'[Len(enq') - Last(flushes').n + 1][1]

FailingFlush == Len(flushes') = Len(flushes) + 1 /\ ~Last(flushes').ok

\* the step that catches a failed batch leaves `result` and the committed
\* chunks alone, empties `reqs` and puts `from` on the first chunk of the
\* failed batch, which is the checkpoint
C12_FailureStep ==
    FailingFlush
        => /\ result' = result
           /\ committed' = committed
           /\ reqs' = <<>>
           /\ chunkStart' = <<BatchOfStep_First>>
           /\ from' = BatchOfStep_First

\* what is enqueued after a failed batch is that batch again, chunk by
\* chunk from its first one
C12_RetrySameBatch ==
    /\ Len(enq) = FlushedBefore(Len(flushes)) + Len(reqs)
    /\ \A k \in 1..Len(flushes) :
          ~flushes[k].ok
            => /\ k < Len(flushes) => BatchOf(k + 1) = BatchOf(k)
               /\ k = Len(flushes) =>
                     \A i \in 1..Len(reqs) :
                        <<reqs[i].from, reqs[i].to>> = BatchOf(k)[i]

\* C12: a failed batch is atomic: the failure leaves `result` unchanged,
\* empties the in-flight list and rewinds `from` to the checkpoint recorded
\* before the batch began, and the retry enqueues the chunks of the failed
\* batch again starting with its first chunk.
C12_BatchAtomicRewind == [][C12_FailureStep]_vars /\ []C12_RetrySameBatch

\* C12 witness: a batch of several chunks failed, was enqueued again and
\* then committed
C12_Witness ==
    \E k \in 1..(Len(flushes) - 1) :
        /\ ~flushes[k].ok
        /\ flushes[k].n > 1
        /\ flushes[k + 1].ok
        /\ result # <<>>

\* C13: a day chunk has at most one upstream call open at a time: the
\* retry after a rewind starts no getBars call for a chunk whose call from
\* the failed batch is still open.
C13_OneFetchPerDay ==
    [][(Len(enq') = Len(enq) + 1 /\ tries > 0 /\ NewTask.kind = "fetch")
          => <<from, NextTo>> \notin pending]_vars

\* C14: the one-day chunks getHistoryIntervalAlpaca hands to requestDay
\* form one contiguous interval, each chunk a day long and starting where
\* another ends, and that interval contains the caller's own [start, end]:
\* it falls short at neither edge, whatever the timezone offset.
C14_Coverage ==
    (args.entry = "interval" /\ pc = "returned")
        => /\ enq # <<>>
           /\ \A c \in Range(enq) :
                 /\ c[2] = c[1] + Day
                 /\ \/ \A d \in Range(enq) : c[1] <= d[1]
                    \/ \E d \in Range(enq) : d[2] = c[1]
           /\ \E c \in Range(enq) : c[1] <= args.start
           /\ \E c \in Range(enq) : args.end <= c[2]

\* C15: in getHistoryFromAlpaca every batch failure is fatal: the error is
\* raised again in the catch block whatever it carries, the backoff sleep
\* is never reached, no batch is awaited after a failed one, and the
\* invocation returns nothing after a failure.
C15_FailureIsFatal ==
    args.entry = "from"
        => /\ pc # "sleep"
           /\ delay = 0
           /\ \A k \in 1..Len(flushes) :
                 ~flushes[k].ok
                    => /\ k = Len(flushes)
                       /\ pc = "raised"
                       /\ retVal = <<>>
           /\ pc = "raised" => (flushes # <<>> /\ ~Last(flushes).ok)
           /\ pc = "returned" => FailureFree

\* C15 witness: getHistoryFromAlpaca raised on the failure of a batch that
\* followed a committed one
C15_Witness ==
    /\ args.entry = "from"
    /\ pc = "raised"
    /\ Len(flushes) > 1
    /\ ~Last(flushes).ok
    /\ result # <<>>

\* the normalized start of the invocation
NormalizedStart == IF args.entry = "interval" THEN IntervalStart ELSE FromStart

\* the candle times a chunk yields when fetched now
ChunkTimes(c) ==
    IF ShouldSkip(c[1]) THEN {}
    ELSE LET bars == getBars(c[1], c[2])
         IN  {transformAlpacaCandle(bars[i]).time : i \in 1..Len(bars)}

\* `result` holds the candles of exactly the chunks from the normalized
\* start up to the checkpoint cs, each once
ResultUpTo(cs) ==
    /\ committed = {f \in NormalizedStart..(cs - 1) :
                       (f - NormalizedStart) % Day = 0}
    /\ \A i, j \in 1..Len(result) : result[i].time = result[j].time => i = j
    /\ \A i \in 1..Len(result) :
          \E f \in committed : result[i].time \in ChunkTimes(<<f, f + Day>>)
    /\ \A f \in committed :
          (f + Day) \div Day <= LoadDay
            => \A t \in ChunkTimes(<<f, f + Day>>) :
                  \E i \in 1..Len(result) : result[i].time = t

\* the start of the batch being built: its first chunk, or the cursor when
\* no task is in flight
BatchStart == IF reqs = <<>> THEN from ELSE reqs[1].from

\* C16: at every loop boundary chunkStart is the `from` of the earliest
\* chunk of the batch being built (the cursor when the in-flight list is
\* empty), and `result` holds the candles of exactly the chunks between the
\* normalized start and chunkStart, each once, whatever failed before.
C16_Checkpoint ==
    pc = "loop" => (chunkStart = <<BatchStart>> /\ ResultUpTo(BatchStart))

\* C16 amended: the same from the first pass on; at the loop boundary
\* before the first pass chunkStart is still undefined and nothing is
\* committed.
C16_CheckpointOnceSet ==
    pc = "loop"
        => IF enq = <<>>
             THEN chunkStart = <<>> /\ result = <<>> /\ committed = {}
                  /\ reqs = <<>> /\ from = NormalizedStart
             ELSE chunkStart = <<BatchStart>> /\ ResultUpTo(BatchStart)

\* C16 witness: a loop boundary after a rewind, with candles committed by
\* an earlier batch
C16_Witness ==
    /\ pc = "loop"
    /\ result # <<>>
    /\ flushes # <<>>
    /\ ~Last(flushes).ok
    /\ chunkStart = <<from>>

\* the step hands requestDay a chunk whose cache file holds text that
\* cannot be parsed
ReadsDamaged ==
    /\ Len(enq') = Len(enq) + 1
    /\ ~ShouldSkip(from)
    /\ getPath(args.interval, from, NextTo) \in DOMAIN cache
    /\ cache[getPath(args.interval, from, NextTo)].form # "json"

\* C17: a cache file that cannot be parsed is treated as a cache miss:
\* requestDay calls upstream for the chunk instead of rejecting with the
\* parse error.
C17_DamagedIsMiss ==
    [][ReadsDamaged => (from \in upstream' /\ NewTask.kind # "unparsable")]_vars

\* C18: within a committed batch the candle lists are concatenated in the
\* order the tasks completed, so `result` is the candles in order of
\* arrival.
C18_CompletionOrder == result = arrived

\* C18 amended: the candle lists of a batch are concatenated in the order
\* the tasks were enqueued, whatever order they completed in: `result`
\* holds the candles that arrived, ordered by time.
C18_EnqueueOrder ==
    /\ Range(result) = Range(arrived)
    /\ Len(result) = Len(arrived)
    /\ \A i, j \in 1..Len(result) : i < j => result[i].time < result[j].time

\* C18 witness: an invocation returned candles of a batch whose tasks
\* completed in another order than they were enqueued in
C18_Witness ==
    /\ pc = "returned"
    /\ Len(retVal) > 1
    /\ arrived # result

\* C19: in both entry points the in-flight list never holds more than 50
\* tasks: it is awaited and emptied when it reaches 50 or `to` reaches
\* `end`, and emptied on every failure, so it is empty while the invocation
\* sleeps and when it returns or raises.
C19_InFlightBounded ==
    /\ Len(reqs) <= BatchSize
    /\ \A k \in 1..Len(flushes) : flushes[k].n <= BatchSize
    /\ (flushes # <<>> /\ reqs # <<>>) => Len(reqs) < BatchSize
    /\ pc \in {"sleep", "returned", "raised"} => reqs = <<>>
    /\ (pc = "loop" /\ reqs # <<>>) => Last(reqs).to < end

\* C19 witness: an invocation awaited a full batch of 50, saw it fail, and
\* has returned
C19_Witness ==
    /\ pc = "returned"
    /\ reqs = <<>>
    /\ \E k \in 1..Len(flushes) : flushes[k].n = BatchSize /\ ~flushes[k].ok

\* C20: in getHistoryFromAlpaca the progress counter goes up by one per
\* enqueued day chunk, and a batch failure takes back the days of the
\* failed batch that were counted: after the rollback the counter, and the
\* value reported, is the number of days in the committed batches, and it
\* is never negative.
C20_ProgressAccounting ==
    args.entry = "from"
        => /\ progressValue >= 0
           /\ progress.value >= 0
           /\ pc = "loop" =>
                 /\ progressValue = Cardinality(committed) + Len(reqs)
                 /\ progressValue = Len(enq)
                 /\ progress.value = progressValue
           /\ pc = "raised" =>
                 /\ progressValue = Cardinality(committed)
                 /\ progressValue = Len(enq) - Last(flushes).n
                 /\ progress.value = progressValue

\* C20 witness: a batch of several days failed and its counted days were
\* taken back
C20_Witness ==
    /\ args.entry = "from"
    /\ pc = "raised"
    /\ Last(flushes).n > 1
    /\ progressValue = Cardinality(committed)
====
